---- MODULE Spec2Model ----
(***************************************************************************)
(* A model of OrtValue (include/onnxruntime/core/framework/ml_value.h):    *)
(* the type-erased value container holding a shared payload handle         *)
(* (std::shared_ptr<void> data_), a type identity (MLDataType type_) and a *)
(* fence handle (FencePtr fence_).                                         *)
(*                                                                         *)
(* A shared_ptr is modelled as a handle [ptr, cb]: the stored pointer and  *)
(* the control block that carries the use count and the deleter.  Control  *)
(* blocks are numbered in order of creation; block k created for a         *)
(* non-null payload owns the payload at address k.                         *)
(***************************************************************************)
EXTENDS Integers, FiniteSets, Sequences, TLC

\* ------------------------------------------------------------------ bounds
\* storage slots an OrtValue can live in
NumSlots == 2
\* control blocks (calls of Init) in one behaviour
MaxBlocks == 2
\* cap of the deleter invocation counter
MaxRuns == 2

Slots == 1..NumSlots

Blocks == 1..MaxBlocks

\* ------------------------------------------------------------------ fences
\* FencePtr is a shared_ptr<IFence>; the container only stores and copies it.
NoFence == "nofence"

FencePtrs == {NoFence, "fenceA"}

\* ------------------------------------------------- type identity registry
\* DataTypeImpl (core/framework/data_types.h) is not part of the sources at
\* hand; the registry is modelled from its contract: one canonical handle per
\* concrete type, and three capability predicates over handles.
NullType == 0

ConcreteTypes == {"TensorInt32", "TensorSeqInt32", "SparseTensorInt32", "MapInt64Float"}

GetType(T) ==
  CASE T = "TensorInt32" -> 1
    [] T = "TensorSeqInt32" -> 2
    [] T = "SparseTensorInt32" -> 3
    [] T = "MapInt64Float" -> 4

MLDataTypes == {GetType(T) : T \in ConcreteTypes}

IsTensorType(id) == id = GetType("TensorInt32")

IsTensorSequenceType(id) == id = GetType("TensorSeqInt32")

IsSparseTensorType(id) == id = GetType("SparseTensorInt32")

Families == {"Tensor", "TensorSeq", "SparseTensor"}

\* ------------------------------------------------------------------ state
VARIABLES
  alive,   \* alive[c]: an OrtValue object currently lives in storage slot c
  data,    \* data[c]: the handle stored in data_
  type_,   \* type_[c]: the identity stored in type_
  fence_,  \* fence_[c]: the fence stored in fence_ 
  count,   \* count[k]: use count of control block k
  cbPtr,   \* cbPtr[k]: the pointer the deleter of block k will be called with
  runs,    \* runs[k]: how many times the deleter of block k has been invoked
  nextCb,  \* the next control block to be created
  ret,     \* what the accessor call just made has returned to its caller
  pc,      \* pc[t]: where thread t is inside the operation it is executing
  loc,     \* loc[t]: the operation thread t executes and its local variables
  delThread  \* delThread[k]: the thread the deleter of block k ran on

threadVars == <<pc, loc, delThread>>

vars == <<alive, data, type_, fence_, count, cbPtr, runs, nextCb, ret, pc, loc, delThread>>

NullHandle == [ptr |-> 0, cb |-> 0]

\* What a call returns: the payload address d.get(), the error ORT_ENFORCE
\* raises, or a flag.
NoRet == [kind |-> "none", val |-> 0]

TypeMismatch == [kind |-> "TypeMismatch", val |-> 0]

Payload(p) == [kind |-> "payload", val |-> p]

Bool(b) == [kind |-> "bool", val |-> IF b THEN 1 ELSE 0]

\* The caller of an accessor holds what it returned until it drops it; it
\* makes its next call after that.
Returned == ret = NoRet

\* ------------------------------------------------- shared_ptr primitives
\* Faulty variant: a copy that takes no use of the control block.
Retain_NoAddRef(cnt, h) == cnt

\* Copying a shared_ptr adds one use to its control block.
Retain(cnt, h) ==
  IF h.cb = 0 THEN cnt ELSE [cnt EXCEPT ![h.cb] = @ + 1]

\* Destroying a shared_ptr removes one use from its control block ...
Release(cnt, h) ==
  IF h.cb = 0 THEN cnt ELSE [cnt EXCEPT ![h.cb] = IF @ > 0 THEN @ - 1 ELSE 0]

\* Faulty variant: the last release does not invoke the deleter.
RunDeleter_Never(rn, cnt, h) == rn

\* ... and invokes the deleter when that was the last use.
RunDeleter(rn, cnt, h) ==
  IF h.cb # 0 /\ cnt[h.cb] <= 1
  THEN [rn EXCEPT ![h.cb] = IF @ < MaxRuns THEN @ + 1 ELSE @]
  ELSE rn

\* ------------------------------------------------------ pure member functions
\* Faulty variant: the loaded handle is not tested.
IsAllocated_TypeOnly(c) == type_[c] # NullType

IsAllocated(c) == data[c].ptr # 0 /\ type_[c] # NullType

IsTensor(c) == type_[c] # NullType /\ IsTensorType(type_[c])

IsTensorSequence(c) == type_[c] # NullType /\ IsTensorSequenceType(type_[c])

IsSparseTensor(c) == type_[c] # NullType /\ IsSparseTensorType(type_[c])

Type(c) == type_[c]

Fence(c) == fence_[c]

\* Faulty variant: the check only asks for some identity.
ExactCheck_AnyType(c, T) == type_[c] # NullType

\* ORT_ENFORCE(DataTypeImpl::GetType<T>() == type_, ...)
ExactCheck(c, T) == GetType(T) = type_[c]

\* Faulty variant: the SparseTensor specialisation asks IsTensor().
FamilyCheck_Pasted(c, F) ==
  CASE F = "Tensor" -> IsTensor(c)
    [] F = "TensorSeq" -> IsTensorSequence(c)
    [] F = "SparseTensor" -> IsTensor(c)

\* ORT_ENFORCE(IsTensor() / IsTensorSequence() / IsSparseTensor(), ...)
FamilyCheck(c, F) ==
  CASE F = "Tensor" -> IsTensor(c)
    [] F = "TensorSeq" -> IsTensorSequence(c)
    [] F = "SparseTensor" -> IsSparseTensor(c)

\* What an accessor whose check gave `ok` does: atomic_load of data_ into a
\* local d, return d.get(), destroy d.
AccessResult(c, ok) == IF ok THEN Payload(data[c].ptr) ELSE TypeMismatch

AccessCount(c, ok) ==
  IF ok THEN Release(Retain(count, data[c]), data[c]) ELSE count

AccessRuns(c, ok) ==
  IF ok THEN RunDeleter(runs, Retain(count, data[c]), data[c]) ELSE runs

\* ---------------------------------------------------------------- Init
Init ==
  /\ alive = [c \in Slots |-> FALSE]
  /\ data = [c \in Slots |-> NullHandle]
  /\ type_ = [c \in Slots |-> NullType]
  /\ fence_ = [c \in Slots |-> NoFence]
  /\ count = [k \in Blocks |-> 0]
  /\ cbPtr = [k \in Blocks |-> 0]
  /\ runs = [k \in Blocks |-> 0]
  /\ nextCb = 1
  /\ ret = NoRet
  /\ pc = <<>>
  /\ loc = <<>>
  /\ delThread = [k \in Blocks |-> "none"]

\* ------------------------------------------------------------- operations
\* OrtValue() : data_(nullptr) {}
DefaultConstruct(c) ==
  /\ Returned
  /\ ~alive[c]
  /\ alive' = [alive EXCEPT ![c] = TRUE]
  /\ data' = [data EXCEPT ![c] = NullHandle]
  /\ type_' = [type_ EXCEPT ![c] = NullType]
  /\ fence_' = [fence_ EXCEPT ![c] = NoFence]
  /\ ret' = NoRet
  /\ UNCHANGED <<count, cbPtr, runs, nextCb>>
  /\ UNCHANGED threadVars

\* Faulty variant: the handle stored before is dropped without being released.
InitEffect_Leaks(c, old, p, t) ==
  LET k == nextCb
  IN /\ data' = [data EXCEPT ![c] = [ptr |-> p, cb |-> k]]
     /\ count' = [count EXCEPT ![k] = 1]
     /\ runs' = runs
     /\ cbPtr' = [cbPtr EXCEPT ![k] = p]
     /\ nextCb' = k + 1
     /\ type_' = [type_ EXCEPT ![c] = t]

\* The effect of Init(pData, type, deleter) on the container in slot c whose
\* data_ currently holds `old`: a new control block owning pData is stored
\* into data_, the handle stored before is released, type_ is overwritten.
InitEffect(c, old, p, t) ==
  LET k == nextCb
      cnt1 == [count EXCEPT ![k] = 1]
  IN /\ data' = [data EXCEPT ![c] = [ptr |-> p, cb |-> k]]
     /\ count' = Release(cnt1, old)
     /\ runs' = RunDeleter(runs, cnt1, old)
     /\ cbPtr' = [cbPtr EXCEPT ![k] = p]
     /\ nextCb' = k + 1
     /\ type_' = [type_ EXCEPT ![c] = t]

\* void Init(void* pData, MLDataType type, DeleteFunc deleter)
InitPayload(c, p, t) ==
  /\ Returned
  /\ alive[c]
  /\ nextCb <= MaxBlocks
  /\ p \in {0, nextCb}
  /\ InitEffect(c, data[c], p, t)
  /\ ret' = NoRet
  /\ UNCHANGED <<alive, fence_>>
  /\ UNCHANGED threadVars

\* OrtValue(void* pData, MLDataType type, DeleteFunc deleter) { Init(...); }
PayloadConstruct(c, p, t) ==
  /\ Returned
  /\ ~alive[c]
  /\ nextCb <= MaxBlocks
  /\ p \in {0, nextCb}
  /\ alive' = [alive EXCEPT ![c] = TRUE]
  /\ InitEffect(c, NullHandle, p, t)
  /\ fence_' = [fence_ EXCEPT ![c] = NoFence]
  /\ ret' = NoRet
  /\ UNCHANGED threadVars

\* Faulty variant: type_ and fence_ are copied, the handle is not stored.
StoreFrom_NoStore(dst, src, old) ==
  /\ UNCHANGED <<data, count, runs>>
  /\ type_' = [type_ EXCEPT ![dst] = type_[src]]
  /\ fence_' = [fence_ EXCEPT ![dst] = fence_[src]]

\* Faulty variant: type_ = v.type_ is left out.
StoreFrom_StaleType(dst, src, old) ==
  LET r == data[src]
      cnt1 == Retain(count, r)
  IN /\ data' = [data EXCEPT ![dst] = r]
     /\ count' = Release(cnt1, old)
     /\ runs' = RunDeleter(runs, cnt1, old)
     /\ fence_' = [fence_ EXCEPT ![dst] = fence_[src]]
     /\ UNCHANGED type_

\* Faulty variant: fence_ = v.fence_ is left out.
StoreFrom_StaleFence(dst, src, old) ==
  LET r == data[src]
      cnt1 == Retain(count, r)
  IN /\ data' = [data EXCEPT ![dst] = r]
     /\ count' = Release(cnt1, old)
     /\ runs' = RunDeleter(runs, cnt1, old)
     /\ type_' = [type_ EXCEPT ![dst] = type_[src]]
     /\ UNCHANGED fence_

\* The effect of std::atomic_store(&data_, v.data_) followed by the copies of
\* type_ and fence_: v.data_ is copied into the by-value argument, swapped
\* with data_, and the handle stored before is released.
StoreFrom(dst, src, old) ==
  LET r == data[src]
      cnt1 == Retain(count, r)
  IN /\ data' = [data EXCEPT ![dst] = r]
     /\ count' = Release(cnt1, old)
     /\ runs' = RunDeleter(runs, cnt1, old)
     /\ type_' = [type_ EXCEPT ![dst] = type_[src]]
     /\ fence_' = [fence_ EXCEPT ![dst] = fence_[src]]

\* OrtValue(const OrtValue& v)
CopyConstruct(dst, src) ==
  /\ Returned
  /\ ~alive[dst]
  /\ alive[src]
  /\ alive' = [alive EXCEPT ![dst] = TRUE]
  /\ StoreFrom(dst, src, NullHandle)
  /\ ret' = NoRet
  /\ UNCHANGED <<cbPtr, nextCb>>
  /\ UNCHANGED threadVars

\* OrtValue& operator=(const OrtValue& v)
CopyAssign(dst, src) ==
  /\ Returned
  /\ alive[dst]
  /\ alive[src]
  /\ IF dst # src
     THEN StoreFrom(dst, src, data[dst])
     ELSE UNCHANGED <<data, count, runs, type_, fence_>>
  /\ ret' = NoRet
  /\ UNCHANGED <<alive, cbPtr, nextCb>>
  /\ UNCHANGED threadVars

\* Faulty variant: the source is emptied after the store, also when the source
\* is the destination.
MoveAssign_EmptiesSelf(dst, src) ==
  /\ Returned
  /\ alive[dst]
  /\ alive[src]
  /\ IF dst # src
     THEN StoreFrom(dst, src, data[dst])
     ELSE /\ data' = [data EXCEPT ![src] = NullHandle]
          /\ count' = Release(count, data[src])
          /\ runs' = RunDeleter(runs, count, data[src])
          /\ type_' = [type_ EXCEPT ![src] = NullType]
          /\ fence_' = [fence_ EXCEPT ![src] = NoFence]
  /\ ret' = NoRet
  /\ UNCHANGED <<alive, cbPtr, nextCb>>
  /\ UNCHANGED threadVars

\* Faulty variant: a move that takes the handle out of the source.
MoveAssign_Steals(dst, src) ==
  /\ Returned
  /\ alive[dst]
  /\ alive[src]
  /\ dst # src
  /\ data' = [data EXCEPT ![dst] = data[src], ![src] = NullHandle]
  /\ count' = Release(count, data[dst])
  /\ runs' = RunDeleter(runs, count, data[dst])
  /\ type_' = [type_ EXCEPT ![dst] = type_[src]]
  /\ fence_' = [fence_ EXCEPT ![dst] = fence_[src]]
  /\ ret' = NoRet
  /\ UNCHANGED <<alive, cbPtr, nextCb>>
  /\ UNCHANGED threadVars

\* OrtValue& operator=(OrtValue&& v)
MoveAssign(dst, src) ==
  /\ Returned
  /\ alive[dst]
  /\ alive[src]
  /\ IF dst # src
     THEN StoreFrom(dst, src, data[dst])
     ELSE UNCHANGED <<data, count, runs, type_, fence_>>
  /\ ret' = NoRet
  /\ UNCHANGED <<alive, cbPtr, nextCb>>
  /\ UNCHANGED threadVars

\* ~OrtValue(): an empty handle is stored into data_, the handle stored before
\* is released; the storage is dead afterwards.
Destroy(c) ==
  /\ Returned
  /\ alive[c]
  /\ alive' = [alive EXCEPT ![c] = FALSE]
  /\ data' = [data EXCEPT ![c] = NullHandle]
  /\ count' = Release(count, data[c])
  /\ runs' = RunDeleter(runs, count, data[c])
  /\ type_' = [type_ EXCEPT ![c] = NullType]
  /\ fence_' = [fence_ EXCEPT ![c] = NoFence]
  /\ ret' = NoRet
  /\ UNCHANGED <<cbPtr, nextCb>>
  /\ UNCHANGED threadVars

\* template <typename T> const T& Get() const
Get(c, T) ==
  /\ Returned
  /\ alive[c]
  /\ ret' = AccessResult(c, ExactCheck(c, T))
  /\ count' = AccessCount(c, ExactCheck(c, T))
  /\ runs' = AccessRuns(c, ExactCheck(c, T))
  /\ UNCHANGED <<alive, data, type_, fence_, cbPtr, nextCb>>
  /\ UNCHANGED threadVars

\* template <typename T> T* GetMutable()
GetMutable(c, T) ==
  /\ Returned
  /\ alive[c]
  /\ ret' = AccessResult(c, ExactCheck(c, T))
  /\ count' = AccessCount(c, ExactCheck(c, T))
  /\ runs' = AccessRuns(c, ExactCheck(c, T))
  /\ UNCHANGED <<alive, data, type_, fence_, cbPtr, nextCb>>
  /\ UNCHANGED threadVars

\* Get<Tensor>, Get<TensorSeq>, Get<SparseTensor>
GetFamily(c, F) ==
  /\ Returned
  /\ alive[c]
  /\ ret' = AccessResult(c, FamilyCheck(c, F))
  /\ count' = AccessCount(c, FamilyCheck(c, F))
  /\ runs' = AccessRuns(c, FamilyCheck(c, F))
  /\ UNCHANGED <<alive, data, type_, fence_, cbPtr, nextCb>>
  /\ UNCHANGED threadVars

\* GetMutable<Tensor>, GetMutable<TensorSeq>, GetMutable<SparseTensor>
GetMutableFamily(c, F) ==
  /\ Returned
  /\ alive[c]
  /\ ret' = AccessResult(c, FamilyCheck(c, F))
  /\ count' = AccessCount(c, FamilyCheck(c, F))
  /\ runs' = AccessRuns(c, FamilyCheck(c, F))
  /\ UNCHANGED <<alive, data, type_, fence_, cbPtr, nextCb>>
  /\ UNCHANGED threadVars

\* bool IsAllocated() const, called
CallIsAllocated(c) ==
  /\ Returned
  /\ alive[c]
  /\ ret' = Bool(IsAllocated(c))
  /\ count' = Release(Retain(count, data[c]), data[c])
  /\ runs' = RunDeleter(runs, Retain(count, data[c]), data[c])
  /\ UNCHANGED <<alive, data, type_, fence_, cbPtr, nextCb>>
  /\ UNCHANGED threadVars

\* void SetFence(FencePtr fence)
SetFence(c, f) ==
  /\ Returned
  /\ alive[c]
  /\ fence_' = [fence_ EXCEPT ![c] = f]
  /\ ret' = NoRet
  /\ UNCHANGED <<alive, data, type_, count, cbPtr, runs, nextCb>>
  /\ UNCHANGED threadVars

\* Faulty variant: the whole of v is taken over, its identity included.
ShareFenceWith_AlsoType(c, v) ==
  /\ Returned
  /\ alive[c]
  /\ alive[v]
  /\ fence_' = [fence_ EXCEPT ![c] = fence_[v]]
  /\ type_' = [type_ EXCEPT ![c] = type_[v]]
  /\ ret' = NoRet
  /\ UNCHANGED <<alive, data, count, cbPtr, runs, nextCb>>
  /\ UNCHANGED threadVars

\* Faulty variant: the assignment goes the other way, v.fence_ = fence_.
ShareFenceWith_Reversed(c, v) ==
  /\ Returned
  /\ alive[c]
  /\ alive[v]
  /\ fence_' = [fence_ EXCEPT ![v] = fence_[c]]
  /\ ret' = NoRet
  /\ UNCHANGED <<alive, data, type_, count, cbPtr, runs, nextCb>>
  /\ UNCHANGED threadVars

\* void ShareFenceWith(OrtValue& v)
ShareFenceWith(c, v) ==
  /\ Returned
  /\ alive[c]
  /\ alive[v]
  /\ fence_' = [fence_ EXCEPT ![c] = fence_[v]]
  /\ ret' = NoRet
  /\ UNCHANGED <<alive, data, type_, count, cbPtr, runs, nextCb>>
  /\ UNCHANGED threadVars

\* The caller drops the reference, pointer or flag an accessor returned.
Discard ==
  /\ ret # NoRet
  /\ ret' = NoRet
  /\ UNCHANGED <<alive, data, type_, fence_, count, cbPtr, runs, nextCb>>
  /\ UNCHANGED threadVars

Next ==
  \/ \E c \in Slots : DefaultConstruct(c)
  \/ \E c \in Slots, p \in {0, nextCb}, t \in MLDataTypes \cup {NullType} : InitPayload(c, p, t)
  \/ \E c \in Slots, p \in {0, nextCb}, t \in MLDataTypes \cup {NullType} : PayloadConstruct(c, p, t)
  \/ \E dst \in Slots, src \in Slots : CopyConstruct(dst, src)
  \/ \E dst \in Slots, src \in Slots : CopyAssign(dst, src)
  \/ \E dst \in Slots, src \in Slots : MoveAssign(dst, src)
  \/ \E c \in Slots : Destroy(c)
  \/ \E c \in Slots, T \in ConcreteTypes : Get(c, T)
  \/ \E c \in Slots, T \in ConcreteTypes : GetMutable(c, T)
  \/ \E c \in Slots, F \in Families : GetFamily(c, F)
  \/ \E c \in Slots, F \in Families : GetMutableFamily(c, F)
  \/ \E c \in Slots : CallIsAllocated(c)
  \/ \E c \in Slots, f \in FencePtrs : SetFence(c, f)
  \/ \E c \in Slots, v \in Slots : ShareFenceWith(c, v)
  \/ Discard

Spec == Init /\ [][Next]_vars

\* ============================================================ threads
\* Several threads run the operations step by step.  A step is one access to
\* shared memory: std::atomic_load and the swap inside std::atomic_store are
\* single steps; the copy of v.data_ into the by-value argument of
\* atomic_store is an ordinary shared_ptr copy (pointer, control block, then
\* the use count), and type_ and fence_ are read and written as plain fields.
Threads == {"t1", "t2"}

ThreadSlots == 1..4

\* The containers a thread has for itself.
Own(t) == IF t = "t1" THEN {1, 2} ELSE {3, 4}

\* The containers of another thread that a thread reads from as well.
Shared(t) == IF t = "t1" THEN {3} ELSE {}

IdleLoc == [op |-> "none", dst |-> 0, src |-> 0, r |-> NullHandle, res |-> NoRet]

\* The containers as one thread set them up before the others start: two
\* payloads, each with its identity and fence, every one held by a container.
First == [data |-> [ptr |-> 1, cb |-> 1], type |-> GetType("TensorInt32"), fence |-> NoFence]

Second == [data |-> [ptr |-> 2, cb |-> 2], type |-> GetType("SparseTensorInt32"), fence |-> "fenceA"]

Dead == [data |-> NullHandle, type |-> NullType, fence |-> NoFence]

Setups ==
  {u \in [ThreadSlots -> {First, Second, Dead}] :
     /\ u[1] # Dead
     /\ u[3] = First
     /\ u[4] # First
     /\ \E c \in ThreadSlots : u[c] = Second}

SetUp(u) ==
    /\ alive = [c \in ThreadSlots |-> u[c] # Dead]
    /\ data = [c \in ThreadSlots |-> u[c].data]
    /\ type_ = [c \in ThreadSlots |-> u[c].type]
    /\ fence_ = [c \in ThreadSlots |-> u[c].fence]
    /\ count = [k \in Blocks |-> Cardinality({c \in ThreadSlots : u[c].data.cb = k})]
    /\ cbPtr = [k \in Blocks |-> IF k <= 2 THEN k ELSE 0]
    /\ runs = [k \in Blocks |-> 0]
    /\ nextCb = 3
    /\ ret = NoRet
    /\ pc = [t \in Threads |-> "idle"]
    /\ loc = [t \in Threads |-> IdleLoc]
    /\ delThread = [k \in Blocks |-> "none"]

\* Both threads start with a container that holds the first payload.
InitThreads == \E u \in Setups : u[1] = First /\ SetUp(u)

\* The container another thread reads is the only holder of its payload, or
\* shares it with one container of the reader.
InitRace == \E u \in Setups : u[2] = Dead /\ u[4] = Second /\ SetUp(u)

\* The storage of slot c is being constructed in by some thread.
UnderConstruction(c) ==
  \E t \in Threads : loc[t].op = "CopyConstruct" /\ loc[t].dst = c

\* Once a deleter has been invoked MaxRuns times the memory is corrupt, and
\* the model follows the threads no further.
Defined == \A k \in Blocks : runs[k] < MaxRuns

Begin(t, op, dst, src, next) ==
  /\ Defined
  /\ pc[t] = "idle"
  /\ pc' = [pc EXCEPT ![t] = next]
  /\ loc' = [loc EXCEPT ![t] = [op |-> op, dst |-> dst, src |-> src, r |-> NullHandle, res |-> NoRet]]
  /\ UNCHANGED <<alive, data, type_, fence_, count, cbPtr, runs, nextCb, ret, delThread>>

\* OrtValue(const OrtValue& v) : type_(v.type_), fence_(v.fence_) { ... }
TCopyConstruct(t, dst, src) ==
  /\ ~alive[dst]
  /\ ~UnderConstruction(dst)
  /\ alive[src]
  /\ Begin(t, "CopyConstruct", dst, src, "cc_type")

\* operator=(const OrtValue& v): if (this != &v) { ... }
TCopyAssign(t, dst, src) ==
  /\ alive[dst]
  /\ alive[src]
  /\ dst # src
  /\ Begin(t, "CopyAssign", dst, src, "arg_ptr")

\* operator=(OrtValue&& v): if (this != &v) { ... }
TMoveAssign(t, dst, src) ==
  /\ alive[dst]
  /\ alive[src]
  /\ dst # src
  /\ Begin(t, "MoveAssign", dst, src, "arg_ptr")

\* ~OrtValue(): std::shared_ptr<void> d(nullptr);
TDestroy(t, c) ==
  /\ alive[c]
  /\ Begin(t, "Destroy", c, c, "swap")

\* IsAllocated()
TIsAllocated(t, c) ==
  /\ alive[c]
  /\ Begin(t, "IsAllocated", c, c, "load")

\* Get<T>() / GetMutable<T>(): ORT_ENFORCE(GetType<T>() == type_, ...)
TGet(t, c, T) ==
  /\ Defined
  /\ alive[c]
  /\ pc[t] = "idle"
  /\ pc' = [pc EXCEPT ![t] = IF ExactCheck(c, T) THEN "load" ELSE "ret"]
  /\ loc' = [loc EXCEPT ![t] = [op |-> "Get", dst |-> c, src |-> c, r |-> NullHandle,
                                res |-> IF ExactCheck(c, T) THEN NoRet ELSE TypeMismatch]]
  /\ UNCHANGED <<alive, data, type_, fence_, count, cbPtr, runs, nextCb, ret, delThread>>

\* type_(v.type_) in the copy constructor, type_ = v.type_ in operator=
TCopyType(t) ==
  /\ Defined
  /\ pc[t] \in {"cc_type", "type"}
  /\ type_' = [type_ EXCEPT ![loc[t].dst] = type_[loc[t].src]]
  /\ pc' = [pc EXCEPT ![t] = IF pc[t] = "cc_type" THEN "cc_fence" ELSE "fence"]
  /\ UNCHANGED <<alive, data, fence_, count, cbPtr, runs, nextCb, ret, loc, delThread>>

\* fence_(v.fence_) in the copy constructor, fence_ = v.fence_ in operator=
TCopyFence(t) ==
  /\ Defined
  /\ pc[t] \in {"cc_fence", "fence"}
  /\ fence_' = [fence_ EXCEPT ![loc[t].dst] = fence_[loc[t].src]]
  /\ pc' = [pc EXCEPT ![t] = IF pc[t] = "cc_fence" THEN "arg_ptr" ELSE "idle"]
  /\ loc' = [loc EXCEPT ![t] = IF pc[t] = "cc_fence" THEN @ ELSE IdleLoc]
  /\ UNCHANGED <<alive, data, type_, count, cbPtr, runs, nextCb, ret, delThread>>

\* The argument v.data_ of atomic_store, copied: the stored pointer ...
TArgPtr(t) ==
  /\ Defined
  /\ pc[t] = "arg_ptr"
  /\ loc' = [loc EXCEPT ![t].r.ptr = data[loc[t].src].ptr]
  /\ pc' = [pc EXCEPT ![t] = "arg_cb"]
  /\ UNCHANGED <<alive, data, type_, fence_, count, cbPtr, runs, nextCb, ret, delThread>>

\* ... the control block ...
TArgCb(t) ==
  /\ Defined
  /\ pc[t] = "arg_cb"
  /\ loc' = [loc EXCEPT ![t].r.cb = data[loc[t].src].cb]
  /\ pc' = [pc EXCEPT ![t] = "arg_ref"]
  /\ UNCHANGED <<alive, data, type_, fence_, count, cbPtr, runs, nextCb, ret, delThread>>

\* Faulty variant: the copied argument takes no use of the control block.
TArgRef_NoUse(t) ==
  /\ Defined
  /\ pc[t] = "arg_ref"
  /\ pc' = [pc EXCEPT ![t] = "swap"]
  /\ UNCHANGED <<alive, data, type_, fence_, count, cbPtr, runs, nextCb, ret, loc, delThread>>

\* ... and one more use of that control block.
TArgRef(t) ==
  /\ Defined
  /\ pc[t] = "arg_ref"
  /\ count' = Retain(count, loc[t].r)
  /\ pc' = [pc EXCEPT ![t] = "swap"]
  /\ UNCHANGED <<alive, data, type_, fence_, cbPtr, runs, nextCb, ret, loc, delThread>>

\* Faulty variant: r is written over data_, the handle stored before is lost.
TSwap_DropsOld(t) ==
  /\ Defined
  /\ pc[t] = "swap"
  /\ data' = [data EXCEPT ![loc[t].dst] = loc[t].r]
  /\ loc' = [loc EXCEPT ![t].r = NullHandle]
  /\ pc' = [pc EXCEPT ![t] = "release"]
  /\ UNCHANGED <<alive, type_, fence_, count, cbPtr, runs, nextCb, ret, delThread>>

\* std::atomic_store(&data_, r): data_ and r are swapped in one step.
TSwap(t) ==
  /\ Defined
  /\ pc[t] = "swap"
  /\ data' = [data EXCEPT ![loc[t].dst] = loc[t].r]
  /\ loc' = [loc EXCEPT ![t].r = data[loc[t].dst]]
  /\ pc' = [pc EXCEPT ![t] = "release"]
  /\ UNCHANGED <<alive, type_, fence_, count, cbPtr, runs, nextCb, ret, delThread>>

\* std::atomic_load(&data_): the handle is copied with its use in one step.
TLoad(t) ==
  /\ Defined
  /\ pc[t] = "load"
  /\ count' = Retain(count, data[loc[t].dst])
  /\ loc' = [loc EXCEPT ![t].r = data[loc[t].dst],
                        ![t].res = IF loc[t].op = "Get" THEN Payload(data[loc[t].dst].ptr) ELSE NoRet]
  /\ pc' = [pc EXCEPT ![t] = IF loc[t].op = "Get" THEN "release" ELSE "eval"]
  /\ UNCHANGED <<alive, data, type_, fence_, cbPtr, runs, nextCb, ret, delThread>>

\* Faulty variant: return d, the identity is not looked at.
TEval_HandleOnly(t) ==
  /\ Defined
  /\ pc[t] = "eval"
  /\ loc' = [loc EXCEPT ![t].res = Bool(loc[t].r.ptr # 0)]
  /\ pc' = [pc EXCEPT ![t] = "release"]
  /\ UNCHANGED <<alive, data, type_, fence_, count, cbPtr, runs, nextCb, ret, delThread>>

\* return d && type_;
TEval(t) ==
  /\ Defined
  /\ pc[t] = "eval"
  /\ loc' = [loc EXCEPT ![t].res = Bool(loc[t].r.ptr # 0 /\ type_[loc[t].dst] # NullType)]
  /\ pc' = [pc EXCEPT ![t] = "release"]
  /\ UNCHANGED <<alive, data, type_, fence_, count, cbPtr, runs, nextCb, ret, delThread>>

\* The local handle (the old value atomic_store swapped out, or the handle
\* atomic_load returned) is destroyed by the thread that holds it; the
\* operation goes on or ends.
TRelease(t) ==
  LET h == loc[t].r
      op == loc[t].op
      c == loc[t].dst
      assigning == op \in {"CopyAssign", "MoveAssign"}
  IN /\ Defined
     /\ pc[t] = "release"
     /\ count' = Release(count, h)
     /\ runs' = RunDeleter(runs, count, h)
     /\ delThread' = IF runs' # runs THEN [delThread EXCEPT ![h.cb] = t] ELSE delThread
     /\ pc' = [pc EXCEPT ![t] = IF assigning THEN "type" ELSE "idle"]
     /\ loc' = [loc EXCEPT ![t] = IF assigning THEN [@ EXCEPT !.r = NullHandle] ELSE IdleLoc]
     /\ alive' = [alive EXCEPT ![c] = IF op = "CopyConstruct" THEN TRUE
                                      ELSE IF op = "Destroy" THEN FALSE ELSE @]
     /\ type_' = IF op = "Destroy" THEN [type_ EXCEPT ![c] = NullType] ELSE type_
     /\ fence_' = IF op = "Destroy" THEN [fence_ EXCEPT ![c] = NoFence] ELSE fence_
     /\ UNCHANGED <<data, cbPtr, nextCb, ret>>

\* ORT_ENFORCE has thrown; the caller has the error.
TReturn(t) ==
  /\ Defined
  /\ pc[t] = "ret"
  /\ pc' = [pc EXCEPT ![t] = "idle"]
  /\ loc' = [loc EXCEPT ![t] = IdleLoc]
  /\ UNCHANGED <<alive, data, type_, fence_, count, cbPtr, runs, nextCb, ret, delThread>>

Step(t) ==
  \/ TCopyType(t)
  \/ TCopyFence(t)
  \/ TArgPtr(t)
  \/ TArgCb(t)
  \/ TArgRef(t)
  \/ TSwap(t)
  \/ TLoad(t)
  \/ TEval(t)
  \/ TRelease(t)
  \/ TReturn(t)

\* Every thread works on its own containers only.
NextOwn ==
  \/ \E t \in Threads, dst \in ThreadSlots, src \in ThreadSlots :
       dst \in Own(t) /\ src \in Own(t) /\ TCopyConstruct(t, dst, src)
  \/ \E t \in Threads, dst \in ThreadSlots, src \in ThreadSlots :
       dst \in Own(t) /\ src \in Own(t) /\ TCopyAssign(t, dst, src)
  \/ \E t \in Threads, dst \in ThreadSlots, src \in ThreadSlots :
       dst \in Own(t) /\ src \in Own(t) /\ TMoveAssign(t, dst, src)
  \/ \E t \in Threads, c \in ThreadSlots : c \in Own(t) /\ TDestroy(t, c)
  \/ \E t \in Threads, c \in ThreadSlots : c \in Own(t) /\ TIsAllocated(t, c)
  \/ \E t \in Threads, c \in ThreadSlots, T \in ConcreteTypes : c \in Own(t) /\ TGet(t, c, T)
  \/ \E t \in Threads : Step(t)

SpecOwn == InitThreads /\ [][NextOwn]_vars

\* One thread copies from, and calls the accessors of, a container of the
\* other thread, which assigns to that container meanwhile.
NextRace ==
  \/ \E dst \in ThreadSlots, src \in ThreadSlots :
       dst \in Own("t1") /\ src \in Shared("t1") /\ TCopyConstruct("t1", dst, src)
  \/ \E dst \in ThreadSlots, src \in ThreadSlots :
       dst \in Own("t1") /\ src \in Shared("t1") /\ TCopyAssign("t1", dst, src)
  \/ \E dst \in ThreadSlots, src \in ThreadSlots :
       dst \in Shared("t1") /\ src \in Own("t2") /\ TMoveAssign("t2", dst, src)
  \/ \E c \in ThreadSlots : c \in Own("t1") /\ TDestroy("t1", c)
  \/ \E c \in ThreadSlots : c \in Shared("t1") /\ TIsAllocated("t1", c)
  \/ \E c \in ThreadSlots, T \in ConcreteTypes : c \in Shared("t1") /\ TGet("t1", c, T)
  \/ \E t \in Threads : Step(t)

SpecRace == InitRace /\ [][NextRace]_vars

\* ------------------------------------------- accessors during an assignment
\* What a container can hold after Init(pData, type, deleter) created control
\* block k for it: pData and type each null or not.
Inited(k, t, f) ==
  {[data |-> [ptr |-> p, cb |-> k], type |-> ty, fence |-> f] : p \in {0, k}, ty \in {NullType, t}}

\* A default-constructed container.
Empty == [data |-> NullHandle, type |-> NullType, fence |-> NoFence]

\* Containers 1 and 3 are copies of one another holding `b`, container 4
\* holds `a`, no container lives in slot 2.
SetUpProbe(b, a) ==
  LET u == [c \in ThreadSlots |-> IF c = 4 THEN a ELSE b]
      live == {1, 3, 4}
  IN /\ alive = [c \in ThreadSlots |-> c \in live]
     /\ data = [c \in ThreadSlots |-> IF c \in live THEN u[c].data ELSE NullHandle]
     /\ type_ = [c \in ThreadSlots |-> IF c \in live THEN u[c].type ELSE NullType]
     /\ fence_ = [c \in ThreadSlots |-> IF c \in live THEN u[c].fence ELSE NoFence]
     /\ count = [k \in Blocks |-> Cardinality({c \in live : u[c].data.cb = k})]
     /\ cbPtr = [k \in Blocks |-> IF k = b.data.cb THEN b.data.ptr
                                  ELSE IF k = a.data.cb THEN a.data.ptr ELSE 0]
     /\ runs = [k \in Blocks |-> 0]
     /\ nextCb = 3
     /\ ret = NoRet
     /\ pc = [t \in Threads |-> "idle"]
     /\ loc = [t \in Threads |-> IdleLoc]
     /\ delThread = [k \in Blocks |-> "none"]

InitProbe ==
  \E b \in Inited(1, GetType("TensorInt32"), NoFence) \cup {Empty},
     a \in Inited(2, GetType("SparseTensorInt32"), "fenceA") \cup {Empty} : SetUpProbe(b, a)

\* One thread calls IsAllocated() and Get<T>() on container 3 while the other
\* assigns container 4 to it.
NextProbe ==
  \/ TIsAllocated("t1", 3)
  \/ \E T \in ConcreteTypes : TGet("t1", 3, T)
  \/ TCopyAssign("t2", 3, 4)
  \/ TMoveAssign("t2", 3, 4)
  \/ \E t \in Threads : Step(t)

SpecProbe == InitProbe /\ [][NextProbe]_vars

\* ------------------------------------------- two assignments to one container
\* Container 1 holds the first payload, container 4 the second, container 3
\* holds `d`, no container lives in slot 2.
SetUpSame(d) ==
  LET u == [c \in ThreadSlots |-> IF c = 1 THEN First ELSE IF c = 4 THEN Second ELSE d]
      live == {1, 3, 4}
  IN /\ alive = [c \in ThreadSlots |-> c \in live]
     /\ data = [c \in ThreadSlots |-> IF c \in live THEN u[c].data ELSE NullHandle]
     /\ type_ = [c \in ThreadSlots |-> IF c \in live THEN u[c].type ELSE NullType]
     /\ fence_ = [c \in ThreadSlots |-> IF c \in live THEN u[c].fence ELSE NoFence]
     /\ count = [k \in Blocks |-> Cardinality({c \in live : u[c].data.cb = k})]
     /\ cbPtr = [k \in Blocks |-> IF k <= 2 THEN k ELSE 0]
     /\ runs = [k \in Blocks |-> 0]
     /\ nextCb = 3
     /\ ret = NoRet
     /\ pc = [t \in Threads |-> "idle"]
     /\ loc = [t \in Threads |-> IdleLoc]
     /\ delThread = [k \in Blocks |-> "none"]

InitSame == \E d \in {Empty, First, Second} : SetUpSame(d)

\* Both threads assign to container 3, each from a container of its own that
\* it destroys at some point between two of its operations; one of them also
\* calls the accessors of container 3.
NextSame ==
  \/ TCopyAssign("t1", 3, 1)
  \/ TMoveAssign("t2", 3, 4)
  \/ TDestroy("t1", 1)
  \/ TDestroy("t2", 4)
  \/ TIsAllocated("t1", 3)
  \/ \E T \in ConcreteTypes : TGet("t1", 3, T)
  \/ \E t \in Threads : Step(t)

SpecSame == InitSame /\ [][NextSame]_vars

\* ==================================================================== claims
\* The containers that hold control block k.
Holders(k) == {c \in DOMAIN alive : alive[c] /\ data[c].cb = k}

Created(k) == k < nextCb

\* The step reassigns, re-initialises or destroys the container in slot c.
Overwrites(c) ==
  \/ \E p \in 0..MaxBlocks, t \in MLDataTypes \cup {NullType} : InitPayload(c, p, t)
  \/ \E s \in Slots : CopyAssign(c, s)
  \/ \E s \in Slots : MoveAssign(c, s)
  \/ Destroy(c)

\* C1: the deleter of a payload installed with a non-null pointer has never run
\* more than once, and it has run once no container holds the payload any more.
C1_DeleterExactlyOnce ==
  \A k \in Blocks :
    Created(k) /\ cbPtr[k] # 0 =>
      /\ runs[k] <= 1
      /\ Holders(k) = {} => runs[k] = 1

\* A payload was installed twice, and the deleter of one has run after its
\* holders were destroyed while the other is still shared by two containers.
C1_Witness ==
  \E k \in Blocks, j \in Blocks :
    /\ Created(k) /\ cbPtr[k] # 0 /\ Holders(k) = {} /\ runs[k] = 1
    /\ Created(j) /\ cbPtr[j] # 0 /\ Cardinality(Holders(j)) = 2 /\ runs[j] = 0

\* C2: the deleter has not run for a payload that a live container holds, and
\* the payload a typed access returns is one whose deleter has not run.
C2_NoDeleteWhileHeld ==
  /\ \A c \in Slots : alive[c] /\ data[c].cb # 0 => runs[data[c].cb] = 0
  /\ ret.kind = "payload" /\ ret.val # 0 =>
       \E c \in Slots : alive[c] /\ data[c].ptr = ret.val /\ runs[data[c].cb] = 0

\* A was destroyed, B alone still holds the payload, the deleter has not run
\* and typed access on B has returned the payload.
C2_Witness ==
  \E b \in Slots :
    /\ alive[b] /\ IsAllocated(b)
    /\ \A a \in Slots \ {b} : ~alive[a]
    /\ count[data[b].cb] = 1 /\ runs[data[b].cb] = 0
    /\ ret = Payload(data[b].ptr)

\* The two containers agree on IsAllocated(), on the identity and on the
\* payload address typed access returns.
SameValue(d, s) ==
  /\ IsAllocated(d) = IsAllocated(s)
  /\ type_[d] = type_[s]
  /\ data[d].ptr = data[s].ptr

\* C3: a copy agrees with its source right after the copy, and two containers
\* that agree keep agreeing for as long as both live and neither is
\* overwritten.
C3_CopyShares ==
  [][ /\ \A d \in Slots, s \in Slots :
           CopyConstruct(d, s) \/ CopyAssign(d, s) => SameValue(d, s)'
      /\ \A d \in Slots, s \in Slots :
           ( /\ alive[d] /\ alive[s] /\ SameValue(d, s)
             /\ alive'[d] /\ alive'[s]
             /\ ~Overwrites(d) /\ ~Overwrites(s) ) => SameValue(d, s)'
    ]_vars

\* Two live containers share one allocated payload (use count 2).
C3_Witness ==
  \E d \in Slots, s \in Slots :
    /\ d # s /\ alive[d] /\ alive[s]
    /\ IsAllocated(d) /\ IsAllocated(s)
    /\ data[d] = data[s] /\ count[data[d].cb] = 2

\* C6: Init and the payload constructor with a non-null payload and a non-null
\* identity leave the container allocated, and an allocated container stays
\* allocated in every step that does not overwrite or destroy it.
C6_StaysAllocated ==
  [][ /\ \A c \in Slots, p \in 1..MaxBlocks, t \in MLDataTypes :
           InitPayload(c, p, t) \/ PayloadConstruct(c, p, t) => IsAllocated(c)'
      /\ \A c \in Slots :
           alive[c] /\ IsAllocated(c) /\ ~Overwrites(c) => alive'[c] /\ IsAllocated(c)'
    ]_vars

\* An allocated container whose only copy was destroyed, with a fence set,
\* on which IsAllocated() has just returned true.
C6_Witness ==
  \E c \in Slots :
    /\ alive[c] /\ IsAllocated(c) /\ fence_[c] # NoFence
    /\ \A d \in Slots \ {c} : ~alive[d]
    /\ ret = Bool(TRUE)

C8_ExactAccess ==
  [][ \A c \in Slots, T \in ConcreteTypes :
        Get(c, T) \/ GetMutable(c, T) =>
          /\ ret' = IF type_[c] = GetType(T) THEN Payload(data[c].ptr) ELSE TypeMismatch
          /\ UNCHANGED <<alive, data, type_, fence_, count, runs>>
    ]_vars

\* A typed access has returned the payload of the only live container, whose
\* identity is a member of no family: every categorical accessor fails on it,
\* so the call was Get<T> or GetMutable<T> with T the stored identity.
C8_Witness ==
  \E c \in Slots :
    /\ alive[c] /\ IsAllocated(c) /\ type_[c] = GetType("MapInt64Float")
    /\ \A d \in Slots \ {c} : ~alive[d]
    /\ ret = Payload(data[c].ptr)

\* C9 as stated: every typed access, exact or categorical, on a container that
\* is not allocated fails with TypeMismatch.
C9_Original ==
  [][ \A c \in Slots :
        ( /\ ~IsAllocated(c)
          /\ \/ \E T \in ConcreteTypes : Get(c, T) \/ GetMutable(c, T)
             \/ \E F \in Families : GetFamily(c, F) \/ GetMutableFamily(c, F) )
        => ret' = TypeMismatch
    ]_vars

\* The identities of a family.
Members(F) ==
  CASE F = "Tensor" -> {GetType("TensorInt32")}
    [] F = "TensorSeq" -> {GetType("TensorSeqInt32")}
    [] F = "SparseTensor" -> {GetType("SparseTensorInt32")}

\* C10: a categorical accessor returns the current payload when the stored
\* identity is a member of its family and fails with TypeMismatch for every
\* other identity, the null identity and the members of the other two families
\* included.
C10_FamilyAccess ==
  [][ \A c \in Slots, F \in Families :
        GetFamily(c, F) \/ GetMutableFamily(c, F) =>
          /\ type_[c] \in Members(F) => ret' = Payload(data[c].ptr)
          /\ type_[c] \notin Members(F) => ret' = TypeMismatch
          /\ \A G \in Families \ {F} : type_[c] \in Members(G) => ret' = TypeMismatch
          /\ type_[c] = NullType => ret' = TypeMismatch
    ]_vars

\* A categorical access has returned the payload of a sparse-tensor container.
C10_Witness ==
  \E c \in Slots :
    /\ alive[c] /\ IsAllocated(c) /\ IsSparseTensor(c)
    /\ \A d \in Slots \ {c} : ~alive[d]
    /\ ret = Payload(data[c].ptr)

\* The containers whose data_ holds control block k, and the threads whose
\* local handle holds a use of it.
SlotHolders(k) == {c \in DOMAIN data : data[c].cb = k}

TempHolders(k) ==
  {t \in Threads : pc[t] \in {"swap", "release", "eval"} /\ loc[t].r.cb = k}

C4_State ==
  \A k \in Blocks :
    Created(k) =>
      /\ runs[k] <= 1
      /\ runs[k] = 1 => SlotHolders(k) = {} /\ TempHolders(k) = {}
      /\ SlotHolders(k) = {} /\ TempHolders(k) = {} => runs[k] = 1

\* C4: with every thread copying, assigning and destroying containers of its
\* own that share payloads with the other thread's, a deleter runs at most
\* once, never while a container or a thread's local handle holds the payload,
\* it has run once nothing holds the payload, and it runs in the release step
\* of the thread that held the last use.
C4_ConcurrentRelease ==
  [][ /\ C4_State
      /\ C4_State'
      /\ \A k \in Blocks :
           runs'[k] # runs[k] =>
             \E t \in Threads :
               /\ pc[t] = "release" /\ pc'[t] # "release"
               /\ loc[t].r.cb = k
               /\ SlotHolders(k) = {} /\ TempHolders(k) = {t}
               /\ delThread'[k] = t
    ]_vars

\* The first payload, held by containers of both threads at the start, has been
\* released by thread t2 last while thread t1 is inside an operation.
C4_Witness ==
  /\ runs[1] = 1 /\ delThread[1] = "t2"
  /\ pc["t1"] \notin {"idle", "ret"}

\* A handle is one a control block was created with.
Whole(h) == h = NullHandle \/ (h.cb \in Blocks /\ h.ptr = cbPtr[h.cb])

NotFreed(h) == h.cb # 0 => runs[h.cb] = 0

\* C5 as stated: the handle a thread has read from a container, as the
\* argument of atomic_store or by atomic_load, is a whole handle whose payload
\* has not been freed, and no deleter runs twice.
C5_Original ==
  /\ \A k \in Blocks : runs[k] <= 1
  /\ \A t \in Threads :
       /\ pc[t] = "swap" /\ loc[t].op \in {"CopyConstruct", "CopyAssign", "MoveAssign"}
            => Whole(loc[t].r) /\ NotFreed(loc[t].r)
       /\ pc[t] \in {"eval", "release"} /\ loc[t].op \in {"IsAllocated", "Get"}
            => Whole(loc[t].r) /\ NotFreed(loc[t].r)

\* C11: after a.ShareFenceWith(b) both containers return the fence b had
\* before the call (no fence when b had none), whatever payload and identity
\* the two hold.
C11_ShareFence ==
  [][ \A a \in Slots, b \in Slots :
        ShareFenceWith(a, b) =>
          /\ Fence(a)' = Fence(b)'
          /\ Fence(b)' = Fence(b)
          /\ Fence(b) = NoFence => Fence(a)' = NoFence
    ]_vars

\* An empty container and an allocated one return the same fence.
C11_Witness ==
  \E a \in Slots, b \in Slots :
    /\ alive[a] /\ alive[b]
    /\ data[a] = NullHandle /\ type_[a] = NullType /\ IsAllocated(b)
    /\ Fence(a) = Fence(b) /\ Fence(a) # NoFence

\* C12: copy-construction, copy-assignment and move-assignment leave the
\* destination with the payload handle, the identity and the fence the source
\* had when the operation began, and leave the source as it was.
C12_WholeTriple ==
  [][ \A d \in Slots, s \in Slots :
        CopyConstruct(d, s) \/ CopyAssign(d, s) \/ MoveAssign(d, s) =>
          /\ data'[d] = data[s] /\ type_'[d] = type_[s] /\ fence_'[d] = fence_[s]
          /\ data'[s] = data[s] /\ type_'[s] = type_[s] /\ fence_'[s] = fence_[s]
    ]_vars

\* Two containers hold the same payload, identity and fence, the payload being
\* the second one installed and the fence being set.
C12_Witness ==
  \E d \in Slots, s \in Slots :
    /\ d # s /\ alive[d] /\ alive[s]
    /\ data[d] = data[s] /\ data[d].cb = 2 /\ data[d].ptr # 0
    /\ type_[d] = type_[s] /\ type_[d] # NullType
    /\ fence_[d] = fence_[s] /\ fence_[d] # NoFence

\* The step is Init on the container in slot c.
Inits(c) ==
  \E p \in 0..MaxBlocks, t \in MLDataTypes \cup {NullType} : InitPayload(c, p, t)

\* The step assigns to the container in slot c from another container.
AssignsTo(c) ==
  \E s \in Slots \ {c} : CopyAssign(c, s) \/ MoveAssign(c, s)

\* C13 as stated: the identity of a container that has one changes only in a
\* copy- or move-assignment to it from another container.
C13_Original ==
  [][ \A c \in Slots :
        alive[c] /\ alive'[c] /\ Type(c) # NullType /\ Type(c)' # Type(c) => AssignsTo(c)
    ]_vars

\* C13 amended: the identity of a container changes only in Init on it or in a
\* copy- or move-assignment to it from another container; no other step
\* (SetFence, ShareFenceWith, IsAllocated, the typed accessors, an operation on
\* another container) changes what Type() returns.
C13_IdentityChanges ==
  [][ \A c \in Slots :
        alive[c] /\ alive'[c] /\ Type(c)' # Type(c) => Inits(c) \/ AssignsTo(c)
    ]_vars

\* The only live container holds the second payload installed, with an
\* identity and a fence, and the first payload has been deleted.
C13_Witness ==
  \E c \in Slots :
    /\ alive[c] /\ data[c].cb = 2 /\ Type(c) # NullType /\ Fence(c) # NoFence
    /\ \A d \in Slots \ {c} : ~alive[d]
    /\ cbPtr[1] # 0 /\ runs[1] = 1

\* The step is a typed access on the container in slot c.
Accesses(c) ==
  \/ \E T \in ConcreteTypes : Get(c, T) \/ GetMutable(c, T)
  \/ \E F \in Families : GetFamily(c, F) \/ GetMutableFamily(c, F)

\* C14 as stated: a container with a null payload and a null identity is not
\* allocated, satisfies no predicate, fails every typed access with
\* TypeMismatch, and no deleter is invoked when it is copied, overwritten or
\* destroyed.
C14_Original ==
  [][ \A c \in Slots :
        alive[c] /\ data[c].ptr = 0 /\ Type(c) = NullType =>
          /\ ~IsAllocated(c)
          /\ ~IsTensor(c) /\ ~IsTensorSequence(c) /\ ~IsSparseTensor(c)
          /\ Accesses(c) => ret' = TypeMismatch
          /\ ( \/ Overwrites(c)
               \/ \E d \in Slots : CopyConstruct(d, c) \/ CopyAssign(d, c) \/ MoveAssign(d, c) )
             => runs' = runs
    ]_vars

\* C17: a copy- or move-assignment of a container to itself changes neither
\* its payload handle, identity or fence nor any use count, and invokes no
\* deleter.
C17_SelfAssign ==
  [][ \A c \in Slots :
        CopyAssign(c, c) \/ MoveAssign(c, c) =>
          UNCHANGED <<alive, data, type_, fence_, count, runs>>
    ]_vars

\* A container that is the only holder of its payload, with a fence, ready to
\* be assigned to itself.
C17_Witness ==
  \E c \in Slots :
    /\ alive[c] /\ IsAllocated(c) /\ Fence(c) # NoFence
    /\ count[data[c].cb] = 1 /\ runs[data[c].cb] = 0
    /\ Returned
    /\ ENABLED MoveAssign(c, c)

\* C18: a move-assignment from another container leaves the source alive with
\* the payload handle, identity and fence it had; source and destination both
\* hold the payload afterwards, its deleter has not run, and a deleter runs
\* only in a step after which no container holds its payload.
C18_MoveKeepsSource ==
  [][ /\ \A d \in Slots, s \in Slots :
           d # s /\ MoveAssign(d, s) =>
             /\ alive'[s]
             /\ data'[s] = data[s] /\ type_'[s] = type_[s] /\ fence_'[s] = fence_[s]
             /\ data[s].cb # 0 =>
                  /\ {d, s} \subseteq Holders(data[s].cb)'
                  /\ count'[data[s].cb] = Cardinality(Holders(data[s].cb))'
                  /\ runs'[data[s].cb] = 0
      /\ \A k \in Blocks : runs'[k] # runs[k] => Holders(k)' = {}
    ]_vars

\* Source and destination of a move both hold the payload (use count 2), and
\* the payload the destination held before has been deleted.
C18_Witness ==
  \E d \in Slots, s \in Slots :
    /\ d # s /\ alive[d] /\ alive[s]
    /\ IsAllocated(s) /\ data[d] = data[s] /\ type_[d] = type_[s] /\ fence_[d] = fence_[s]
    /\ count[data[s].cb] = 2 /\ runs[data[s].cb] = 0
    /\ \E k \in Blocks : cbPtr[k] # 0 /\ runs[k] = 1

\* The step stores another handle into data_ of the container in slot c.
Replaces(c) == Inits(c) \/ AssignsTo(c)

\* Every payload installed is held by a live container or has been deleted once.
NoLeak ==
  \A k \in Blocks :
    Created(k) /\ cbPtr[k] # 0 => (Holders(k) # {} /\ runs[k] = 0) \/ (Holders(k) = {} /\ runs[k] = 1)

\* C19: Init on a container and assignment to it from another container
\* release the use the container had of its previous payload: when it was the
\* last use the deleter of that payload runs once in that step, otherwise it
\* does not run; no other deleter runs; and in every state each payload
\* installed is held by a live container or has been deleted exactly once.
C19_OverwriteReleases ==
  [][ /\ \A c \in Slots :
           alive[c] /\ Replaces(c) =>
             LET k == data[c].cb
             IN /\ k # 0 /\ data'[c].cb # k =>
                     /\ count'[k] = count[k] - 1
                     /\ runs'[k] = IF count[k] = 1 THEN runs[k] + 1 ELSE runs[k]
                /\ k # 0 /\ data'[c].cb = k => count'[k] = count[k] /\ runs'[k] = runs[k]
                /\ \A j \in Blocks \ {k} : runs'[j] = runs[j]
      /\ NoLeak
      /\ NoLeak'
    ]_vars

\* Both containers hold the second payload installed and the first has been
\* deleted.
C19_Witness ==
  /\ \A c \in Slots : alive[c] /\ data[c].cb = 2 /\ data[c].ptr # 0
  /\ count[2] = NumSlots
  /\ cbPtr[1] # 0 /\ runs[1] = 1 /\ count[1] = 0

\* C20: Init stores the payload and the identity it was given and leaves the
\* fence; the handle and identity a container holds after a step were given
\* together to the Init of that step or were held together by a container
\* before it; a container without a handle has no identity; containers that
\* hold the same payload have the same identity, so that a successful access
\* returns the payload installed with the identity asked for; SetFence and
\* ShareFenceWith change the fence only.
C20_PairedFields ==
  [][ /\ \A c \in Slots, p \in 0..MaxBlocks, t \in MLDataTypes \cup {NullType} :
           InitPayload(c, p, t) \/ PayloadConstruct(c, p, t) =>
             /\ data'[c] = [ptr |-> p, cb |-> nextCb] /\ type_'[c] = t
             /\ cbPtr'[nextCb] = p
             /\ InitPayload(c, p, t) => fence_' = fence_
             /\ \A d \in Slots \ {c} : data'[d] = data[d] /\ type_'[d] = type_[d]
      /\ \A c \in Slots :
           alive'[c] /\ data'[c].cb # 0 =>
             \/ \E p \in 0..MaxBlocks, t \in MLDataTypes \cup {NullType} :
                  InitPayload(c, p, t) \/ PayloadConstruct(c, p, t)
             \/ \E s \in Slots : alive[s] /\ data[s] = data'[c] /\ type_[s] = type_'[c]
      /\ \A c \in Slots : alive'[c] /\ data'[c].cb = 0 => data'[c].ptr = 0 /\ type_'[c] = NullType
      /\ \A c \in Slots, d \in Slots :
           alive'[c] /\ alive'[d] /\ data'[c].cb # 0 /\ data'[c].cb = data'[d].cb =>
             data'[c].ptr = data'[d].ptr /\ type_'[c] = type_'[d]
      /\ \A c \in Slots, T \in ConcreteTypes :
           (Get(c, T) \/ GetMutable(c, T)) /\ ret'.kind = "payload" =>
             type_[c] = GetType(T) /\ ret'.val = cbPtr[data[c].cb]
      /\ \A c \in Slots :
           (\E f \in FencePtrs : SetFence(c, f)) \/ (\E v \in Slots : ShareFenceWith(c, v)) =>
             /\ UNCHANGED <<alive, data, type_, count, runs>>
             /\ \A d \in Slots \ {c} : fence_'[d] = fence_[d]
    ]_vars

\* A typed access has returned the second payload installed, held by two
\* containers with one identity of which one has a fence and the other none.
C20_Witness ==
  \E c \in Slots, d \in Slots :
    /\ alive[c] /\ alive[d] /\ c # d
    /\ data[c] = data[d] /\ data[c].cb = 2 /\ data[c].ptr # 0
    /\ type_[c] = type_[d] /\ type_[c] = GetType("TensorSeqInt32")
    /\ fence_[c] # NoFence /\ fence_[d] = NoFence
    /\ ret = Payload(data[c].ptr)

\* Thread t executes a step of IsAllocated().
IsAllocatedStep(t) ==
  loc[t].op = "IsAllocated" /\ (TLoad(t) \/ TEval(t) \/ TRelease(t))

\* IsAllocated() leaves the fields of every container; the use its load takes
\* of the control block is the one its last step gives back.
NoSideEffect(t) ==
  /\ IsAllocatedStep(t) => UNCHANGED <<alive, data, type_, fence_>>
  /\ loc[t].op = "IsAllocated" /\ TLoad(t) =>
       loc'[t].r = data[loc[t].dst] /\ count' = Retain(count, loc'[t].r)
  /\ loc[t].op = "IsAllocated" /\ TEval(t) => count' = count /\ loc'[t].r = loc[t].r
  /\ loc[t].op = "IsAllocated" /\ TRelease(t) => count' = Release(count, loc[t].r)

\* IsAllocated() of thread t has computed its result.
HasResult(t) == loc[t].op = "IsAllocated" /\ pc[t] = "release"

\* Payload and identity of the container in slot c are both null or both not.
BothOrNeither(c) == (data[c].ptr = 0) = (type_[c] = NullType)

\* C15 as stated: IsAllocated() on container 3, called while container 4 is
\* assigned to it, has no side effect, and returns the allocation status of
\* the value before the assignment (kept by container 1) or of the value after
\* it (that of container 4).
C15_Original ==
  [][ \A t \in Threads :
        /\ NoSideEffect(t)
        /\ HasResult(t)' => loc'[t].res \in {Bool(IsAllocated(1)), Bool(IsAllocated(4))}
    ]_vars

\* C15 amended: IsAllocated() has no side effect, and its result is whether
\* the payload of the value before or after the assignment is non-null and the
\* identity of the value before or after it is non-null; it is the allocation
\* status before or after the assignment whenever each of the two values has
\* payload and identity both null or both non-null.
C15_ResultOfOldOrNew ==
  [][ \A t \in Threads :
        /\ NoSideEffect(t)
        /\ HasResult(t)' =>
             /\ \E h \in {data[1], data[4]}, ty \in {type_[1], type_[4]} :
                  loc'[t].res = Bool(h.ptr # 0 /\ ty # NullType)
             /\ BothOrNeither(1) /\ BothOrNeither(4) =>
                  loc'[t].res \in {Bool(IsAllocated(1)), Bool(IsAllocated(4))}
    ]_vars

\* IsAllocated() has returned false on a container that was empty and is
\* being assigned an allocated value: the payload is stored, the identity is
\* not yet.
C15_Witness ==
  /\ HasResult("t1") /\ loc["t1"].res = Bool(FALSE)
  /\ ~IsAllocated(1) /\ BothOrNeither(1) /\ IsAllocated(4)
  /\ pc["t2"] = "type" /\ data[3] = data[4] /\ type_[3] = NullType

\* The thread is inside an assignment.
Assigning(t) == loc[t].op \in {"CopyAssign", "MoveAssign"}

\* The use count of every control block is the number of containers and local
\* handles that hold it.
SharesCounted ==
  \A k \in Blocks :
    Created(k) => count[k] = Cardinality(SlotHolders(k)) + Cardinality(TempHolders(k))

\* C16: with two threads assigning to container 3, each from its own source:
\* the swap of an assignment stores the whole handle of its source and takes
\* out the whole handle stored before; the handle in data_ is always a whole
\* handle whose use is counted; a deleter runs at most once, in the release
\* step of the thread that held the last use, and has run once nothing holds
\* the payload.
C16_SwapAtomic ==
  [][ /\ C4_State /\ C4_State'
      /\ SharesCounted /\ SharesCounted'
      /\ Whole(data[3]) /\ Whole(data[3])'
      /\ \A t \in Threads :
           Assigning(t) /\ TSwap(t) =>
             /\ data'[3] = data[loc[t].src] /\ Whole(data'[3])
             /\ loc'[t].r = data[3]
      /\ \A k \in Blocks :
           runs'[k] # runs[k] =>
             \E t \in Threads :
               /\ pc[t] = "release" /\ loc[t].r.cb = k
               /\ count[k] = 1 /\ SlotHolders(k) = {} /\ TempHolders(k) = {t}
      /\ ( /\ \A t \in Threads : pc'[t] = "idle"
           /\ ~alive'[1] /\ ~alive'[4] /\ data'[3].cb # 0 ) =>
             /\ count'[data'[3].cb] = 1 /\ runs'[data'[3].cb] = 0
             /\ \A j \in {1, 2} \ {data'[3].cb} : count'[j] = 0 /\ runs'[j] = 1
    ]_vars

\* Both assignments are over: container 3 holds the first payload with the
\* identity and fence of the second; the second payload was deleted when its
\* last holder released it.
C16_Witness ==
  /\ \A t \in Threads : pc[t] = "idle"
  /\ data[3] = First.data /\ type_[3] = Second.type /\ fence_[3] = Second.fence
  /\ count[1] = Cardinality(SlotHolders(1)) /\ runs[1] = 0
  /\ runs[2] = 1 /\ count[2] = 0

====
